---- MODULE Spec2Model ----
(***************************************************************************)
(* CartItemsComponent (assets/component-cart-items.js): a custom element   *)
(* that sends cart-change requests for quantity changes and removals and   *)
(* reconciles its rows with the section HTML the server returns.           *)
(*                                                                         *)
(* Every handler of the component runs to completion on the event loop,    *)
(* so each handler is one action.  A request is in flight from the fetch   *)
(* call until its promise chain (then/then/catch/finally) has run.         *)
(***************************************************************************)
EXTENDS Integers, Sequences, FiniteSets, TLC

----------------------------------------------------------------------------
(* Bounds of the model *)

\* cart-change requests issued in one behaviour
MaxRequests == 2
\* largest quantity a quantity selector can be set to
MaxQuantity == 2
\* clock steps in one debounce wait
TicksPerWait == 2
\* sectionRenderer.renderSection calls a document event may add per component
MaxRenders == 1

(* Program constants *)

\* debounce(this.#onQuantityChange, 300)
DebounceWait == 300

TickMs == DebounceWait \div TicksPerWait

None == [none |-> TRUE]

Disabled == "cart-items-disabled"

----------------------------------------------------------------------------
VARIABLES
  comps,          \* the cart-items-component elements that exist
  dataset,        \* dataset[c]: data-section-id of c, "" when missing
  connected,      \* connected[c]: c is in the document
  listeners,      \* <<event type, c>>: handlers of c registered on document
  classList,      \* classList[c]: classes of the element
  rows,           \* rows[c]: the rows of refs.cartItemRows, in DOM order
  shown,          \* shown[c]: request whose section HTML c shows, 0 = HTML of
                  \*   the first render or of an event from another element
  shimmer,        \* shimmer[c]: the cart total of c shimmers
  timer,          \* timer[c]: the pending timeout of #debouncedOnChange
  reqs,           \* the cart-change requests issued, in issue order
  cart,           \* the server's cart
  reducedMotion,  \* prefersReducedMotion()
  renders,        \* renders[c]: sectionRenderer.renderSection calls for c
  quiet,          \* quiet[c]: ms since c's listener last got an event (capped)
  lastEvent,      \* lastEvent[c]: detail of the last event of the burst c's
                  \*   listener is getting, None once it has been handled
  calls           \* calls[c]: #onQuantityChange calls on c since the last
                  \*   burst began

vars == <<comps, dataset, connected, listeners, classList, rows, shown, shimmer,
          timer, reqs, cart, reducedMotion, renders, quiet, lastEvent, calls>>

domVars == <<classList, rows, shown, shimmer>>
ghostVars == <<quiet, lastEvent, calls>>
envVars == <<comps, dataset, reducedMotion>>

----------------------------------------------------------------------------
(* The server's cart and the section HTML rendered from it *)

Item(v, key, parentKey) ==
  [v |-> v, key |-> key, parentKey |-> parentKey, qty |-> 1]

\* Three carts of two lines: a line with a nested line, two top-level lines,
\* and two top-level lines under a template that renders no data-key
InitialCarts ==
  { << Item(1, "k1", ""), Item(2, "k2", "k1") >>,
    << Item(1, "k1", ""), Item(2, "k2", "") >>,
    << Item(1, "", ""), Item(2, "", "") >> }

\* One table row of the section: its quantity selector and its error elements
RenderRow(item, i) ==
  [v |-> item.v, key |-> item.key, parentKey |-> item.parentKey, line |-> i,
   removing |-> FALSE,
   value |-> item.qty, defaultValue |-> item.qty, cartQuantity |-> item.qty,
   errorText |-> "", errorHidden |-> TRUE]

Render(c0) == [i \in 1..Len(c0) |-> RenderRow(c0[i], i)]

RemoveAt(s, i) == [j \in 1..(Len(s) - 1) |-> IF j < i THEN s[j] ELSE s[j + 1]]

\* The cart after a change of one line
ApplyChange(c0, line, quantity) ==
  IF quantity = 0 THEN RemoveAt(c0, line)
  ELSE [c0 EXCEPT ![line].qty = quantity]

----------------------------------------------------------------------------
(* Initial state: the elements are constructed from the first render of    *)
(* the section and are not yet connected.                                  *)

Init ==
  /\ comps = {1}
  /\ dataset \in [comps -> {"s1", ""}]
  /\ connected = [c \in comps |-> FALSE]
  /\ listeners = {}
  /\ classList = [c \in comps |-> {}]
  /\ cart \in InitialCarts
  /\ rows = [c \in comps |-> Render(cart)]
  /\ shown = [c \in comps |-> 0]
  /\ shimmer = [c \in comps |-> FALSE]
  /\ timer = [c \in comps |-> None]
  /\ reqs = << >>
  /\ reducedMotion \in BOOLEAN
  /\ renders = [c \in comps |-> 0]
  /\ quiet = [c \in comps |-> DebounceWait]
  /\ lastEvent = [c \in comps |-> None]
  /\ calls = [c \in comps |-> 0]

----------------------------------------------------------------------------
(* Lifecycle *)

CartUpdate == "cartUpdate"
DiscountUpdate == "discountUpdate"
QuantitySelectorUpdate == "quantitySelectorUpdate"

\* connectedCallback: addEventListener ignores a handler already registered
ConnectedCallback(c) ==
  /\ ~connected[c]
  /\ connected' = [connected EXCEPT ![c] = TRUE]
  /\ listeners' = listeners \cup
        {<<CartUpdate, c>>, <<DiscountUpdate, c>>, <<QuantitySelectorUpdate, c>>}
  /\ UNCHANGED <<envVars, domVars, timer, reqs, cart, renders, ghostVars>>

\* disconnectedCallback: a pending debounce timeout is not cancelled
DisconnectedCallback(c) ==
  /\ connected[c]
  /\ connected' = [connected EXCEPT ![c] = FALSE]
  /\ listeners' = listeners \ {<<CartUpdate, c>>, <<QuantitySelectorUpdate, c>>}
  /\ UNCHANGED <<envVars, domVars, timer, reqs, cart, renders, ghostVars>>

----------------------------------------------------------------------------
(* updateQuantity *)

DisableCartItems(classes) == classes \cup {Disabled}

EnableCartItems(classes) == classes \ {Disabled}

\* get sectionId: throws when data-section-id is missing
SectionIdThrows(c) == dataset[c] = ""

Range(s) == {s[i] : i \in DOMAIN s}

Min(S) == CHOOSE m \in S : \A n \in S : m <= n

RECURSIVE AddSections(_, _)
AddSections(acc, todo) ==
  IF todo = {} THEN acc
  ELSE LET m == Min(todo)
           sid == dataset[m]
       IN AddSections(IF connected[m] /\ sid # "" /\ sid \notin Range(acc)
                        THEN Append(acc, sid) ELSE acc,
                      todo \ {m})

\* the Set built from the elements of the document only
SectionsToUpdateDocumentOrder(c) == AddSections(<< >>, comps)

\* the Set of section ids, in insertion order: the component's own id first
SectionsToUpdate(c) == AddSections(<<dataset[c]>>, comps)

NewRequest(c, config) ==
  [comp |-> c, line |-> config.line, quantity |-> config.quantity,
   action |-> config.action, sections |-> SectionsToUpdate(c),
   state |-> "sent", kind |-> "none", html |-> << >>,
   logged |-> 0, events |-> 0, steps |-> << >>]

\* The synchronous part of updateQuantity, up to and including the fetch call.
\* The sectionId getter throws after #disableCartItems and before the fetch.
UpdateQuantity(c, config) ==
  /\ classList' = [classList EXCEPT ![c] = DisableCartItems(@)]
  /\ IF SectionIdThrows(c)
       THEN UNCHANGED <<shimmer, reqs>>
       ELSE /\ shimmer' = [shimmer EXCEPT ![c] = TRUE]
            /\ reqs' = Append(reqs, NewRequest(c, config))

----------------------------------------------------------------------------
(* onLineItemRemove *)

\* positions of the rows onLineItemRemove removes: cartItemRows[line - 1] and
\* the rows whose dataset.parentKey === its dataset.key ("" is a missing attribute)
RowsToRemove(rs, line) ==
  IF line < 1 \/ line > Len(rs) THEN {}
  ELSE {line} \cup {i \in DOMAIN rs : rs[i].parentKey = rs[line].key}

RECURSIVE Keep(_, _)
Keep(rs, gone) ==
  IF rs = << >> THEN << >>
  ELSE LET rest == Keep(Tail(rs), {i - 1 : i \in gone \ {1}})
       IN IF 1 \in gone THEN rest ELSE <<Head(rs)>> \o rest

\* row.remove() at once under reduced motion, else class 'removing' until the
\* animation ends
RemoveRows(rs, line) ==
  LET gone == RowsToRemove(rs, line)
  IN IF reducedMotion THEN Keep(rs, gone)
     ELSE [i \in DOMAIN rs |->
             IF i \in gone THEN [rs[i] EXCEPT !.removing = TRUE] ELSE rs[i]]

OnLineItemRemove(c, line) ==
  /\ UpdateQuantity(c, [line |-> line, quantity |-> 0, action |-> "clear"])
  /\ rows' = IF SectionIdThrows(c) THEN rows
             ELSE [rows EXCEPT ![c] = RemoveRows(@, line)]

\* the quantity === 0 branch left out
OnQuantityChangeNoRemoval(c, detail) ==
  IF detail.line = 0
    THEN UNCHANGED <<classList, shimmer, reqs, rows>>
    ELSE /\ UpdateQuantity(c, [line |-> detail.line,
                                quantity |-> detail.quantity,
                                action |-> "change"])
         /\ UNCHANGED rows

\* #onQuantityChange(event)
OnQuantityChange(c, detail) ==
  IF detail.line = 0
    THEN UNCHANGED <<classList, shimmer, reqs, rows>>
    ELSE IF detail.quantity = 0
      THEN OnLineItemRemove(c, detail.line)
      ELSE /\ UpdateQuantity(c, [line |-> detail.line,
                                  quantity |-> detail.quantity,
                                  action |-> "change"])
           /\ UNCHANGED rows

----------------------------------------------------------------------------
(* The debounced quantitySelectorUpdate listener *)

\* debounce(fn, wait): every call clears the pending timeout and sets a new one
Debounce(wait, detail) == [remaining |-> wait, detail |-> detail]

\* the wait left out: debounce(this.#onQuantityChange)
DebouncedOnChangeNoWait(c, detail) == Debounce(0, detail)

\* #debouncedOnChange = debounce(this.#onQuantityChange, 300).bind(this)
DebouncedOnChange(c, detail) == Debounce(DebounceWait, detail)

Armed(c) == timer[c] # None

Due(c) == Armed(c) /\ timer[c].remaining = 0

Listening(type) == {c \in comps : <<type, c>> \in listeners}

\* A quantity selector dispatches quantitySelectorUpdate on the document: the
\* selector of the row at position p of src (its cartLine is the line the row
\* was rendered with), or a selector outside the cart rows (p = 0, no cartLine).
\* A timeout that is due runs before an event that arrives later.  The controls
\* of a component that carries 'cart-items-disabled' take no input.
QuantityEvent(src, p, quantity) ==
  LET detail == [line |-> IF p = 0 THEN 0 ELSE rows[src][p].line,
                 quantity |-> quantity]
      L == Listening(QuantitySelectorUpdate)
  IN /\ connected[src]
     /\ p # 0 => Disabled \notin classList[src]
     /\ \A c \in comps : ~Due(c)
     /\ Len(reqs) + Cardinality({c \in comps : Armed(c) \/ c \in L}) <= MaxRequests
     /\ rows' = IF p = 0 THEN rows ELSE [rows EXCEPT ![src][p].value = quantity]
     /\ timer' = [c \in comps |->
                    IF c \in L THEN DebouncedOnChange(c, detail) ELSE timer[c]]
     /\ quiet' = [c \in comps |-> IF c \in L THEN 0 ELSE quiet[c]]
     /\ lastEvent' = [c \in comps |-> IF c \in L THEN detail ELSE lastEvent[c]]
     /\ calls' = [c \in comps |->
                    IF c \in L /\ quiet[c] >= DebounceWait THEN 0 ELSE calls[c]]
     /\ UNCHANGED <<envVars, connected, listeners, classList, shown, shimmer,
                    reqs, cart, renders>>

\* Time passes while a timeout is pending and none is due
Tick ==
  /\ \E c \in comps : Armed(c)
  /\ \A c \in comps : ~Due(c)
  /\ timer' = [c \in comps |->
                 IF Armed(c)
                   THEN [timer[c] EXCEPT !.remaining =
                           IF @ > TickMs THEN @ - TickMs ELSE 0]
                   ELSE timer[c]]
  /\ quiet' = [c \in comps |->
                 IF quiet[c] + TickMs < DebounceWait
                   THEN quiet[c] + TickMs ELSE DebounceWait]
  /\ UNCHANGED <<envVars, connected, listeners, domVars, reqs, cart, renders,
                 lastEvent, calls>>

\* The timeout runs #onQuantityChange with the arguments of the last call
TimerFires(c) ==
  /\ Due(c)
  /\ OnQuantityChange(c, timer[c].detail)
  /\ timer' = [timer EXCEPT ![c] = None]
  /\ calls' = [calls EXCEPT ![c] = @ + 1]
  /\ lastEvent' = [lastEvent EXCEPT ![c] = None]
  /\ UNCHANGED <<envVars, connected, listeners, shown, cart, renders, quiet>>

\* The remove button of the row at position p calls onLineItemRemove(line)
LineItemRemove(c, p) ==
  /\ connected[c]
  /\ Disabled \notin classList[c]
  /\ p \in DOMAIN rows[c]
  /\ Len(reqs) + Cardinality({d \in comps : Armed(d)}) < MaxRequests
  /\ OnLineItemRemove(c, rows[c][p].line)
  /\ UNCHANGED <<envVars, connected, listeners, shown, timer, cart, renders,
                 ghostVars>>

\* onAnimationEnd(row, remove)
AnimationEnd(c, p) ==
  /\ p \in DOMAIN rows[c]
  /\ rows[c][p].removing
  /\ rows' = [rows EXCEPT ![c] = Keep(@, {p})]
  /\ UNCHANGED <<envVars, connected, listeners, classList, shown, shimmer,
                 timer, reqs, cart, renders, ghostVars>>

----------------------------------------------------------------------------
(* The cart-change endpoint *)

\* The server changes the line and renders the sections (ok), or does the
\* same and returns no HTML for the sections (nosection)
Applied == {"ok", "nosection"}

\* The server refuses the change (errors), the fetch fails (reject), or the
\* body is not JSON (badjson): the cart stays as it is
Failed == {"errors", "reject", "badjson"}

Pending(r) == reqs[r].state # "settled"

\* The server handles request r and sends its response.  A line the cart does
\* not have is refused.
ServerResponds(r, kind) ==
  LET q == reqs[r]
  IN /\ q.state = "sent"
     /\ q.line \in DOMAIN cart
     /\ cart' = ApplyChange(cart, q.line, q.quantity)
     /\ reqs' = [reqs EXCEPT ![r] = [q EXCEPT !.state = "responded",
                                               !.kind = kind, !.html = cart']]
     /\ UNCHANGED <<envVars, connected, listeners, domVars, timer, renders,
                    ghostVars>>

----------------------------------------------------------------------------
(* The promise chain of updateQuantity *)

ErrorElements(rs, line) == {i \in DOMAIN rs : rs[i].line = line}

\* #handleCartError(line, parsedResponseText): the rows after it, and whether
\* it threw
HandleCartError(rs, line) ==
  IF line \notin DOMAIN rs
    THEN [rows |-> rs, threw |-> TRUE]
    ELSE LET reverted == [rs EXCEPT ![line].value = rs[line].defaultValue]
         IN IF ErrorElements(rs, line) = {}
              THEN [rows |-> reverted, threw |-> TRUE]
              ELSE [rows |-> [i \in DOMAIN rs |->
                                IF i \in ErrorElements(rs, line)
                                  THEN [reverted[i] EXCEPT !.errorText = "errors",
                                                           !.errorHidden = FALSE]
                                  ELSE reverted[i]],
                    threw |-> FALSE]

\* #updateQuantitySelectors(updatedCart): data-cart-quantity of the selectors
\* in the document whose variant is in items
UpdateQuantitySelectors(rws, items) ==
  [c \in comps |->
     IF ~connected[c] THEN rws[c]
     ELSE [i \in DOMAIN rws[c] |->
             LET hit == {j \in DOMAIN items : items[j].v = rws[c][i].v}
             IN IF hit = {} THEN rws[c][i]
                ELSE [rws[c][i] EXCEPT
                        !.cartQuantity = items[CHOOSE j \in hit : TRUE].qty]]]

\* morphSection(sectionId, html): the section in the document becomes html
MorphSection(rws, sids, html) ==
  [c \in comps |->
     IF connected[c] /\ dataset[c] \in sids THEN Render(html) ELSE rws[c]]

MorphShown(shw, sids, r) ==
  [c \in comps |-> IF connected[c] /\ dataset[c] \in sids THEN r ELSE shw[c]]

\* the event.target === this check left out
HandleCartUpdateAnyTarget(c, event) ==
  IF event.type = DiscountUpdate
    THEN IF SectionIdThrows(c) THEN "throw" ELSE "render"
    ELSE IF SectionIdThrows(c) THEN "throw"
    ELSE IF dataset[c] \in event.keys THEN "morph" ELSE "render"

\* #handleCartUpdate(event): what the handler of c does with an event of this
\* type and target whose detail.data.sections has HTML for the ids in keys:
\* renderSection(sectionId, {cache: false}), morphSection(sectionId, html),
\* an early return, or a throw from the sectionId getter
HandleCartUpdate(c, event) ==
  IF event.type = DiscountUpdate
    THEN IF SectionIdThrows(c) THEN "throw" ELSE "render"
    ELSE IF event.target = c THEN "return"
    ELSE IF SectionIdThrows(c) THEN "throw"
    ELSE IF dataset[c] \in event.keys THEN "morph" ELSE "render"

\* The components whose #handleCartUpdate gets the event dispatched from c:
\* it bubbles to the document when c is in it
Notified(c) ==
  IF connected[c] THEN Listening(CartUpdate) ELSE {}

\* the section morphed before the selectors are updated and the event is
\* dispatched
SuccessCallsMorphFirst ==
  <<"resetShimmer", "morphSection", "updateQuantitySelectors", "dispatchEvent">>

\* The calls of the second then on a response without errors, up to the morph
SuccessCalls ==
  <<"resetShimmer", "updateQuantitySelectors", "dispatchEvent", "morphSection">>

\* The second then of the chain, a response without errors: what it leaves
ThenSuccess(r, keys) ==
  LET q == reqs[r]
      c == q.comp
      rows1 == UpdateQuantitySelectors(rows, q.html)
      \* #handleCartUpdate of the components that get the event
      event == [type |-> CartUpdate, target |-> c, keys |-> keys]
      have == {d \in Notified(c) : HandleCartUpdate(d, event) = "morph"}
      lack == {d \in Notified(c) : HandleCartUpdate(d, event) = "render"}
      heard == {dataset[d] : d \in have}
      rows2 == MorphSection(rows1, heard, q.html)
      shown2 == MorphShown(shown, heard, r)
      own == IF dataset[c] \in keys THEN {dataset[c]} ELSE {}
  IN [rows |-> MorphSection(rows2, own, q.html),
      shown |-> MorphShown(shown2, own, r),
      shimmer |-> [shimmer EXCEPT ![c] = FALSE],
      events |-> 1,
      renders |-> [d \in comps |-> IF d \in lack THEN renders[d] + 1
                                    ELSE renders[d]],
      \* morphSection without HTML for the section may throw
      logs |-> IF own = {} THEN {0, 1} ELSE {0},
      \* morphSection calls with HTML, by the section of each component
      morphs |-> [d \in comps |->
                    Cardinality({e \in have : dataset[e] = dataset[d]})
                      + (IF dataset[d] \in own THEN 1 ELSE 0)],
      \* the calls made, and the call after the morph
      steps |-> SuccessCalls,
      rest |-> <<"updateCartQuantitySelectorButtonStates">>]

ThenErrors(r) ==
  LET q == reqs[r]
      c == q.comp
      h == HandleCartError(rows[c], q.line)
  IN [rows |-> [rows EXCEPT ![c] = h.rows],
      shown |-> shown,
      shimmer |-> [shimmer EXCEPT ![c] = FALSE],
      events |-> 0,
      renders |-> renders,
      logs |-> IF h.threw THEN {1} ELSE {0},
      morphs |-> [d \in comps |-> 0],
      steps |-> <<"resetShimmer", "handleCartError">>,
      rest |-> << >>]

\* the catch handler showing the failure as a cart error
ThenSkippedShowsError(r) ==
  [ThenErrors(r) EXCEPT !.shimmer = shimmer, !.logs = {1}]

\* fetch rejected, or JSON.parse threw before resetShimmer: both thens are
\* skipped and the catch logs
ThenSkipped(r) ==
  [rows |-> rows, shown |-> shown, shimmer |-> shimmer,
   events |-> 0, renders |-> renders, logs |-> {1},
   morphs |-> [d \in comps |-> 0],
   steps |-> << >>, rest |-> << >>]

Chain(r, kind) ==
  CASE kind = "ok" -> ThenSuccess(r, Range(reqs[r].sections))
    [] kind = "nosection" -> ThenSuccess(r, {})
    [] kind = "errors" -> ThenErrors(r)
    [] OTHER -> ThenSkipped(r)

RECURSIVE Sum(_)
Sum(s) == IF s = << >> THEN 0 ELSE Head(s) + Sum(Tail(s))

\* console.error calls, and CartUpdateEvents dispatched, so far
ErrorLog == Sum([r \in DOMAIN reqs |-> reqs[r].logged])
Dispatched == Sum([r \in DOMAIN reqs |-> reqs[r].events])

\* the finally handler left out
FinallySkipped(c) == classList

\* .finally: #enableCartItems()
Finally(c) == [classList EXCEPT ![c] = EnableCartItems(@)]

\* The calls the chain has made, in order: what the second then ran, the call
\* after the morph or, when something threw, the catch; then the finally
Ran(out, logged) ==
  out.steps \o (IF logged = 1 THEN <<"console.error">> ELSE out.rest)
            \o <<"enableCartItems">>

\* What is kept of a request once its chain has run
Settled(q, kind, logged, events, steps) ==
  [comp |-> q.comp, line |-> 0, quantity |-> 0, action |-> "",
   sections |-> << >>, state |-> "settled",
   kind |-> IF kind = "ok" THEN "ok" ELSE "", html |-> << >>,
   logged |-> logged, events |-> events, steps |-> steps]

\* The response of request r arrives, or its fetch fails, and the promise
\* chain runs
Settle(r, kind) ==
  LET q == reqs[r]
      out == Chain(r, kind)
  IN /\ r \in DOMAIN reqs
     /\ \/ q.state = "responded" /\ kind = q.kind
        \/ q.state = "sent" /\ kind \in Failed
     /\ rows' = out.rows
     /\ shown' = out.shown
     /\ shimmer' = out.shimmer
     /\ renders' = out.renders
     /\ classList' = Finally(q.comp)
     /\ \E n \in out.logs :
          reqs' = [reqs EXCEPT ![r] =
                     Settled(q, kind, n, out.events, Ran(out, n))]
     /\ UNCHANGED <<envVars, connected, listeners, timer, cart, ghostVars>>

----------------------------------------------------------------------------
(* Document events from outside the component *)

SectionIds == {"s1", "s2"}

\* A CartUpdateEvent or CartAddEvent dispatched by another element (target 0),
\* with the section HTML of the server's cart for the ids in keys
CartUpdateFromElsewhere(keys) ==
  LET event == [type |-> CartUpdate, target |-> 0, keys |-> keys]
      L == Listening(CartUpdate)
      have == {d \in L : HandleCartUpdate(d, event) = "morph"}
      lack == {d \in L : HandleCartUpdate(d, event) = "render"}
      heard == {dataset[d] : d \in have}
  IN /\ L # {}
     /\ \A d \in lack : renders[d] < MaxRenders
     /\ rows' = MorphSection(rows, heard, cart)
     /\ shown' = MorphShown(shown, heard, 0)
     /\ renders' = [d \in comps |-> IF d \in lack THEN renders[d] + 1
                                     ELSE renders[d]]
     /\ UNCHANGED <<envVars, connected, listeners, classList, shimmer, timer,
                    reqs, cart, ghostVars>>

\* A DiscountUpdateEvent on the document, from the component target or from
\* another element (target 0): handleDiscountUpdate -> #handleCartUpdate
DiscountUpdateEvent(target) ==
  LET event == [type |-> DiscountUpdate, target |-> target, keys |-> {}]
      L == Listening(DiscountUpdate)
      rendering == {d \in L : HandleCartUpdate(d, event) = "render"}
  IN /\ L # {}
     /\ target # 0 => connected[target]
     /\ \A d \in rendering : renders[d] < MaxRenders
     /\ renders' = [d \in comps |-> IF d \in rendering THEN renders[d] + 1
                                     ELSE renders[d]]
     /\ UNCHANGED <<envVars, connected, listeners, domVars, timer, reqs, cart,
                    ghostVars>>

----------------------------------------------------------------------------
Next ==
  \/ \E c \in comps : ConnectedCallback(c)
  \/ \E c \in comps : DisconnectedCallback(c)
  \/ \E c \in comps : \E p \in 0..Len(rows[c]) : \E n \in 0..MaxQuantity :
       (p = 0 => n = 1) /\ QuantityEvent(c, p, n)
  \/ Tick
  \/ \E c \in comps : TimerFires(c)
  \/ \E c \in comps : \E p \in DOMAIN rows[c] : LineItemRemove(c, p)
  \/ \E c \in comps : \E p \in DOMAIN rows[c] : AnimationEnd(c, p)
  \/ \E r \in DOMAIN reqs : \E kind \in Applied : ServerResponds(r, kind)
  \/ \E r \in DOMAIN reqs : \E kind \in Applied \cup Failed : Settle(r, kind)

Spec == Init /\ [][Next]_vars

(* A page with two cart-items-component elements, a cart page and a cart  *)
(* drawer say, and the document events of the other components of the page *)

PageInit ==
  /\ comps = {1, 2}
  /\ dataset \in {f \in [comps -> SectionIds \cup {""}] : f[1] # "s2"}
  /\ connected = [c \in comps |-> FALSE]
  /\ listeners = {}
  /\ classList = [c \in comps |-> {}]
  /\ cart = << Item(1, "k1", "") >>
  /\ rows = [c \in comps |-> Render(cart)]
  /\ shown = [c \in comps |-> 0]
  /\ shimmer = [c \in comps |-> FALSE]
  /\ timer = [c \in comps |-> None]
  /\ reqs = << >>
  /\ reducedMotion = TRUE
  /\ renders = [c \in comps |-> 0]
  /\ quiet = [c \in comps |-> DebounceWait]
  /\ lastEvent = [c \in comps |-> None]
  /\ calls = [c \in comps |-> 0]

\* The quantity selectors, set to MaxQuantity, and the document events; the
\* remove buttons are left to Spec
PageNext ==
  \/ \E c \in comps : ConnectedCallback(c)
  \/ \E c \in comps : DisconnectedCallback(c)
  \/ \E c \in comps : \E p \in DOMAIN rows[c] :
       QuantityEvent(c, p, MaxQuantity)
  \/ Tick
  \/ \E c \in comps : TimerFires(c)
  \/ \E r \in DOMAIN reqs : \E kind \in Applied : ServerResponds(r, kind)
  \/ \E r \in DOMAIN reqs : \E kind \in Applied \cup Failed : Settle(r, kind)
  \/ \E keys \in SUBSET SectionIds : CartUpdateFromElsewhere(keys)
  \/ \E target \in comps \cup {0} : DiscountUpdateEvent(target)

PageSpec == PageInit /\ [][PageNext]_vars

\* Every fetch promise settles and its reactions run
FairSpec ==
  Spec /\ \A r \in 1..MaxRequests :
            WF_vars(\E kind \in Applied \cup Failed : Settle(r, kind))

----------------------------------------------------------------------------
(* Properties *)

IsDisabled(c) == Disabled \in classList[c]

Issued(c) == {r \in DOMAIN reqs : reqs[r].comp = c}

InFlight(c) == {r \in Issued(c) : Pending(r)}

\* the step runs the promise chain of request r
Settles(r) == Pending(r) /\ reqs'[r].state = "settled"

\* C1: whenever a cart-change request of a component has not yet settled,
\* the component carries the class 'cart-items-disabled'
C1_DisabledWhileInFlight ==
  \A c \in comps : InFlight(c) # {} => IsDisabled(c)

\* C2: the promise chain of every request, whatever its outcome, ends with
\* 'cart-items-disabled' removed from its component, and a component whose
\* requests have all settled is enabled
C2_EverySettleEnables ==
  /\ \A r \in 1..MaxRequests :
       (r \in DOMAIN reqs /\ Pending(r))
         ~> (r \in DOMAIN reqs /\ ~Pending(r) /\ ~IsDisabled(reqs[r].comp))
  /\ [][/\ \A r \in DOMAIN reqs :
            Settles(r) => Disabled \notin classList'[reqs[r].comp]
       /\ \A c \in comps :
            (\E r \in DOMAIN reqs : Settles(r) /\ reqs[r].comp = c)
              /\ (\A r \in DOMAIN reqs' :
                    reqs'[r].comp = c => reqs'[r].state = "settled")
              => classList'[c] = {}]_vars

\* a chain has thrown and logged (as #handleCartError does when its elements
\* are missing), every request has settled and the component is enabled
C2_Witness ==
  \E r \in DOMAIN reqs :
    /\ reqs[r].state = "settled" /\ reqs[r].logged = 1 /\ reqs[r].events = 0
    /\ ~shimmer[reqs[r].comp]
    /\ InFlight(reqs[r].comp) = {}
    /\ ~IsDisabled(reqs[r].comp)
    /\ Len(rows[reqs[r].comp]) = 0

(* Steps of #onQuantityChange *)

\* the step calls #onQuantityChange on c
Calls(c) == calls'[c] = calls[c] + 1

\* the step gives c's listener an event
Hears(c) ==
  /\ c \in Listening(QuantitySelectorUpdate)
  /\ \E src \in comps : \E p \in 0..Len(rows[src]) : \E n \in 0..MaxQuantity :
       QuantityEvent(src, p, n)

\* the step sends exactly one request, from c, with these fields
SendsOne(c, line, quantity, action) ==
  /\ Len(reqs') = Len(reqs) + 1
  /\ SubSeq(reqs', 1, Len(reqs)) = reqs
  /\ LET q == reqs'[Len(reqs')]
     IN /\ q.comp = c /\ q.state = "sent"
        /\ q.line = line /\ q.quantity = quantity /\ q.action = action

\* the step takes the rows at the positions gone out of c: at once under
\* reduced motion, else by giving them the class 'removing'
TakesOut(c, gone) ==
  rows'[c] = IF reducedMotion THEN Keep(rows[c], gone)
             ELSE [i \in DOMAIN rows[c] |->
                     IF i \in gone THEN [rows[c][i] EXCEPT !.removing = TRUE]
                     ELSE rows[c][i]]

\* C3: #onQuantityChange is called only when the listener has been quiet for
\* 300 ms, once per burst, and its request carries the line and quantity of
\* the last event of the burst; a step that delivers an event calls nothing
\* and sends no request
C3_Debounced ==
  [][\A c \in comps :
       /\ Calls(c) =>
            /\ quiet[c] >= 300
            /\ calls'[c] = 1
            /\ lastEvent[c] # None
            /\ Len(reqs') <= Len(reqs) + 1
            /\ Len(reqs') > Len(reqs) =>
                 /\ reqs'[Len(reqs')].line = lastEvent[c].line
                 /\ reqs'[Len(reqs')].quantity = lastEvent[c].quantity
            /\ (lastEvent[c].line # 0 /\ dataset[c] # "") =>
                 Len(reqs') > Len(reqs)
       /\ Hears(c) => calls'[c] = 0 /\ reqs' = reqs
       /\ calls'[c] # calls[c] => Calls(c) \/ Hears(c)]_vars

\* a burst of two events, on row 1 and then on row 2, has led to one call and
\* to one request, for line 2
C3_Witness ==
  \E c \in comps :
    /\ calls[c] = 1 /\ Len(reqs) = 1
    /\ reqs[1].state = "sent" /\ reqs[1].line = 2 /\ reqs[1].quantity = 2
    /\ Len(rows[c]) = 2 /\ rows[c][1].value = 2 /\ rows[c][2].value = 2

\* C4: onLineItemRemove(line) sends one request with that line and quantity 0
\* and removes exactly cartItemRows[line - 1] and the rows nested under it
\* (those whose data-parent-key is that row's data-key), no row of another
\* top-level line, also when the row has no data-key
C4_RemovesLineAndNested ==
  [][\A c \in comps :
       (/\ Len(reqs') = Len(reqs) + 1
        /\ reqs'[Len(reqs')].comp = c
        /\ reqs'[Len(reqs')].action = "clear") =>
         LET line == reqs'[Len(reqs')].line
             nested == {i \in DOMAIN rows[c] :
                          /\ rows[c][i].parentKey # ""
                          /\ rows[c][i].parentKey = rows[c][line].key}
         IN /\ reqs'[Len(reqs')].quantity = 0
            /\ TakesOut(c, IF line \in DOMAIN rows[c]
                             THEN {line} \cup nested ELSE {})]_vars

\* C5: a response with errors for line L reverts the input of
\* quantitySelectors[L - 1], puts the text in cartItemError-L and shows
\* cartItemErrorContainer-L; no event, no morph, no data-cart-quantity change
C5_ErrorsRevertAndShow ==
  [][\A r \in DOMAIN reqs :
       Settle(r, "errors") =>
         LET c == reqs[r].comp
             L == reqs[r].line
         IN /\ L \in DOMAIN rows[c] /\ L \in DOMAIN rows'[c]
            /\ rows'[c][L].value = rows[c][L].defaultValue
            /\ \E i \in DOMAIN rows'[c] :
                 /\ rows'[c][i].line = L
                 /\ rows'[c][i].errorText = "errors"
                 /\ ~rows'[c][i].errorHidden
            /\ Dispatched' = Dispatched
            /\ shown' = shown
            /\ \A d \in comps : \A i \in DOMAIN rows[d] :
                 /\ i \in DOMAIN rows'[d]
                 /\ rows'[d][i].cartQuantity = rows[d][i].cartQuantity]_vars

\* C6: a rejected fetch or a body that is not JSON is logged once; nothing is
\* dispatched, morphed, changed in the rows or sent again, and the component
\* is re-enabled
C6_FetchErrorsOnlyLogged ==
  [][\A r \in DOMAIN reqs :
       (Settle(r, "reject") \/ Settle(r, "badjson")) =>
         /\ ErrorLog' = ErrorLog + 1
         /\ Dispatched' = Dispatched
         /\ shown' = shown /\ rows' = rows /\ renders' = renders
         /\ shimmer' = shimmer
         /\ Len(reqs') = Len(reqs) /\ timer' = timer
         /\ \A d \in comps :
              classList'[d] = IF d = reqs[r].comp THEN classList[d] \ {Disabled}
                              ELSE classList[d]]_vars

\* the fetch of a quantity change has failed: logged, the cart total still
\* shimmers, the input keeps what the user chose, the component is enabled
C6_Witness ==
  /\ Len(reqs) = 1
  /\ reqs[1].state = "settled" /\ reqs[1].logged = 1 /\ reqs[1].events = 0
  /\ shimmer[reqs[1].comp]
  /\ ~IsDisabled(reqs[1].comp)
  /\ \E i \in DOMAIN rows[reqs[1].comp] :
       rows[reqs[1].comp][i].value # rows[reqs[1].comp][i].defaultValue

\* C7: of two requests of a component that were in flight together, the HTML
\* of the one issued last is what the section shows once both have completed
\* successfully: when the later one has completed and its HTML is shown, the
\* completion of the earlier one leaves that HTML in place
C7_ShowsLastIssued ==
  [][\A c \in comps :
       (/\ connected[c]
        /\ Len(reqs) = 2 /\ reqs[1].comp = c /\ reqs[2].comp = c
        /\ reqs[2].state = "settled" /\ reqs[2].kind = "ok" /\ shown[c] = 2
        /\ Settle(1, "ok"))
         => shown'[c] = 2]_vars

\* C8: when the request of onLineItemRemove(line) ends with errors or with a
\* fetch failure and the line is still in the server's cart, the row of the
\* line is in the component once the request has completed
C8_RemovalReconciled ==
  [][\A r \in DOMAIN reqs : \A kind \in Failed :
       (/\ Settle(r, kind)
        /\ reqs[r].action = "clear"
        /\ Len(reqs) = 1
        /\ connected[reqs[r].comp]
        /\ reqs[r].line \in DOMAIN cart) =>
         \E i \in DOMAIN rows'[reqs[r].comp] :
           rows'[reqs[r].comp][i].v = cart[reqs[r].line].v]_vars

\* C9: a component that carries 'cart-items-disabled' has a request pending
C9_DisabledOnlyWhileInFlight ==
  \A c \in comps : IsDisabled(c) => InFlight(c) # {}

\* C10: #onQuantityChange sends nothing and changes nothing without a line;
\* with quantity 0 it sends one 'clear' request with quantity 0 and removes the
\* row as onLineItemRemove does; with another quantity it sends one 'change'
\* request with the line and quantity and removes no row
C10_RoutesByQuantityAndLine ==
  [][\A c \in comps :
       Calls(c) =>
         LET d == lastEvent[c]
             gone == IF d.line \in DOMAIN rows[c]
                       THEN {d.line} \cup {i \in DOMAIN rows[c] :
                              rows[c][i].parentKey = rows[c][d.line].key}
                       ELSE {}
         IN /\ d.line = 0 =>
                 UNCHANGED <<reqs, classList, rows, shown, shimmer, cart, renders>>
            /\ (d.line # 0 /\ d.quantity = 0) =>
                 SendsOne(c, d.line, 0, "clear") /\ TakesOut(c, gone)
            /\ (d.line # 0 /\ d.quantity # 0) =>
                 /\ SendsOne(c, d.line, d.quantity, "change")
                 /\ rows'[c] = rows[c]]_vars

\* C10 as amended: the same on a component that has a data-section-id; on one
\* that has none no request is sent and no row is removed
C10_RoutesWhenSectionIdSet ==
  [][\A c \in comps :
       Calls(c) =>
         LET d == lastEvent[c]
             gone == IF d.line \in DOMAIN rows[c]
                       THEN {d.line} \cup {i \in DOMAIN rows[c] :
                              rows[c][i].parentKey = rows[c][d.line].key}
                       ELSE {}
         IN /\ d.line = 0 =>
                 UNCHANGED <<reqs, classList, rows, shown, shimmer, cart, renders>>
            /\ (d.line # 0 /\ d.quantity = 0 /\ dataset[c] # "") =>
                 SendsOne(c, d.line, 0, "clear") /\ TakesOut(c, gone)
            /\ (d.line # 0 /\ d.quantity # 0 /\ dataset[c] # "") =>
                 /\ SendsOne(c, d.line, d.quantity, "change")
                 /\ rows'[c] = rows[c]
            /\ (d.line # 0 /\ dataset[c] = "") =>
                 reqs' = reqs /\ rows' = rows]_vars

\* an event with quantity 0 for line 1 has been handled: one 'clear' request
\* is out and the row of line 1 and the row nested under it are going
C10_Witness ==
  \E c \in comps :
    /\ calls[c] = 1 /\ Len(reqs) = 1
    /\ reqs[1].action = "clear" /\ reqs[1].line = 1 /\ reqs[1].state = "sent"
    /\ Len(rows[c]) = 2 /\ rows[c][1].removing /\ rows[c][2].removing
    /\ rows[c][2].parentKey = "k1"

C15_NoChangeLost ==
  [][\A c \in comps :
       (/\ Armed(c) /\ timer[c].detail.line # 0 /\ dataset[c] # ""
        \* the events that follow are changes of cart lines
        /\ timer'[c] # None => timer'[c].detail.line # 0) =>
         LET d == timer[c].detail
         IN \/ timer'[c] # None /\ timer'[c].detail.line = d.line
            \/ SendsOne(c, d.line, d.quantity,
                        IF d.quantity = 0 THEN "clear" ELSE "change")]_vars

\* C14: one quantitySelectorUpdate event for a cart line on the document
\* leads to one POST, however many components are connected: it starts the
\* debounced #onQuantityChange, which sends one request, of at most one
\* component that has a section id
C14_OneEventOneRequest ==
  [][\A src \in comps : \A p \in DOMAIN rows[src] :
       QuantityEvent(src, p, MaxQuantity) =>
         Cardinality({c \in comps :
                        /\ dataset[c] # ""
                        /\ timer'[c] # None
                        /\ timer'[c].remaining = DebounceWait
                        /\ timer'[c].detail.line # 0}) <= 1]_vars

\* C16: every request has as its sections the own section id first, then the
\* non-empty data-section-id of the other cart-items-component elements in
\* the document, each id once, and the line and quantity it was given
C16_SectionsOfRequest ==
  [][Len(reqs') > Len(reqs) =>
       LET q == reqs'[Len(reqs')]
           c == q.comp
           ids == {dataset[d] : d \in {e \in comps : connected[e]}} \ {""}
       IN /\ Len(reqs') = Len(reqs) + 1
          /\ dataset[c] # ""
          /\ Len(q.sections) > 0 /\ q.sections[1] = dataset[c]
          /\ Range(q.sections) = {dataset[c]} \cup ids
          /\ Cardinality(Range(q.sections)) = Len(q.sections)
          /\ IF Calls(c)
               \* from #onQuantityChange: the event's line and quantity
               THEN /\ q.line = lastEvent[c].line
                    /\ q.quantity = lastEvent[c].quantity
               \* from a remove button: the row's line, quantity 0
               ELSE /\ \E i \in DOMAIN rows[c] : q.line = rows[c][i].line
                    /\ q.quantity = 0]_vars

\* the second component has sent a request while the first, with another
\* section id, was in the document: its own id comes first
C16_Witness ==
  \E r \in DOMAIN reqs :
    /\ reqs[r].comp = 2 /\ reqs[r].state = "sent"
    /\ reqs[r].sections = <<"s2", "s1">>
    /\ reqs[r].line = 1 /\ reqs[r].quantity = MaxQuantity

\* C13: a connected component has its handler registered on document for
\* each of cartUpdate, discountUpdate and quantitySelectorUpdate, and a
\* disconnected component has none registered
C13_ListenersFollowLifecycle ==
  \A c \in comps :
    \A type \in {CartUpdate, DiscountUpdate, QuantitySelectorUpdate} :
      (<<type, c>> \in listeners) <=> connected[c]

\* C12: a DiscountUpdateEvent, whatever its target, makes every listening
\* component call renderSection and morphs nothing; the own handler returns on
\* the event of the component's own successful request, whose section is so
\* morphed once; a cart update event from another target makes a listening
\* component morph its section to the event's HTML when the event has it and
\* call renderSection when it has not
C12_HandlesByKindAndOrigin ==
  [][/\ \A target \in comps \cup {0} :
          DiscountUpdateEvent(target) =>
            \A d \in Listening(DiscountUpdate) :
              /\ rows'[d] = rows[d] /\ shown'[d] = shown[d]
              /\ renders'[d] = renders[d] + 1
     /\ \A r \in DOMAIN reqs :
          (Settle(r, "ok") /\ connected[reqs[r].comp]) =>
            LET c == reqs[r].comp
            IN /\ renders'[c] = renders[c]
               /\ Chain(r, "ok").morphs[c] = 1
     /\ \A keys \in SUBSET SectionIds :
          CartUpdateFromElsewhere(keys) =>
            \A d \in Listening(CartUpdate) :
              /\ (dataset[d] \in keys) =>
                   rows'[d] = Render(cart) /\ renders'[d] = renders[d]
              /\ (dataset[d] \notin keys) =>
                   rows'[d] = rows[d] /\ renders'[d] = renders[d] + 1
     /\ \A r \in DOMAIN reqs : \A kind \in Applied :
          (Settle(r, kind) /\ connected[reqs[r].comp]) =>
            LET keys == IF kind = "ok" THEN Range(reqs[r].sections) ELSE {}
            IN \A d \in Listening(CartUpdate) \ {reqs[r].comp} :
                 /\ (dataset[d] \in keys) =>
                      rows'[d] = Render(reqs[r].html) /\ renders'[d] = renders[d]
                 /\ (dataset[d] \notin keys) =>
                      renders'[d] = renders[d] + 1]_vars

\* C12 as amended: the same for a component that has a data-section-id, its
\* section being morphed once more by each other listening component of the
\* same section id; a component without data-section-id neither morphs nor
\* calls renderSection, the sectionId getter throws
C12_HandlesWhenSectionIdSet ==
  [][/\ \A target \in comps \cup {0} :
          DiscountUpdateEvent(target) =>
            \A d \in Listening(DiscountUpdate) :
              /\ rows'[d] = rows[d] /\ shown'[d] = shown[d]
              /\ dataset[d] # "" => renders'[d] = renders[d] + 1
              /\ dataset[d] = "" => renders'[d] = renders[d]
     /\ \A r \in DOMAIN reqs :
          (Settle(r, "ok") /\ connected[reqs[r].comp]) =>
            LET c == reqs[r].comp
            IN /\ renders'[c] = renders[c]
               /\ Chain(r, "ok").morphs[c] = 1 + Cardinality({d \in Listening(CartUpdate) \ {c} :
                                dataset[d] = dataset[c]})
     /\ \A keys \in SUBSET SectionIds :
          CartUpdateFromElsewhere(keys) =>
            \A d \in Listening(CartUpdate) :
              /\ (dataset[d] \in keys) =>
                   rows'[d] = Render(cart) /\ renders'[d] = renders[d]
              /\ (dataset[d] \notin keys /\ dataset[d] # "") =>
                   rows'[d] = rows[d] /\ renders'[d] = renders[d] + 1
              /\ dataset[d] = "" =>
                   rows'[d] = rows[d] /\ renders'[d] = renders[d]
     /\ \A r \in DOMAIN reqs : \A kind \in Applied :
          (Settle(r, kind) /\ connected[reqs[r].comp]) =>
            LET keys == IF kind = "ok" THEN Range(reqs[r].sections) ELSE {}
            IN \A d \in Listening(CartUpdate) \ {reqs[r].comp} :
                 /\ (dataset[d] \in keys) =>
                      rows'[d] = Render(reqs[r].html) /\ renders'[d] = renders[d]
                 /\ (dataset[d] \notin keys /\ dataset[d] # "") =>
                      renders'[d] = renders[d] + 1
                 /\ dataset[d] = "" => renders'[d] = renders[d]]_vars

\* both components have re-rendered on a DiscountUpdateEvent and the request
\* of the first has succeeded: the second, of another section, shows the
\* HTML of the event and the first the HTML of its response
C12_Witness ==
  \E r \in DOMAIN reqs :
    /\ reqs[r].comp = 1 /\ reqs[r].state = "settled" /\ reqs[r].kind = "ok"
    /\ dataset[1] = "s1" /\ dataset[2] = "s2"
    /\ shown[1] = r /\ shown[2] = r
    /\ renders[1] = 1 /\ renders[2] = 1

====
